---- MODULE Spec2Model ----
(***************************************************************************)
(* Circuit / Component / Node composite (core/circuit.h, circuit.cpp), the *)
(* plugin-supplied Inductor and Diode (plugins/example_plugin.cpp) and the *)
(* PluginManager registry (plugins/plugin_system.cpp).                     *)
(*                                                                         *)
(* Strings used as map keys (component ids, node ids, plugin names) are    *)
(* coded as naturals whose order is the lexicographic order of the strings *)
(* they stand for; 0 is the empty string.                                  *)
(* A double is an exact extended rational <<n, d>>: d > 0 is the finite    *)
(* value n/d in lowest terms, <<1,0>> is +inf, <<-1,0>> is -inf and        *)
(* <<0,0>> is NaN.                                                         *)
(***************************************************************************)
EXTENDS Integers, Sequences, FiniteSets, TLC

VARIABLES comp, node, components_, nodes_, sim,
          plugins_, plugin_handles_, loads, ret,
          basePlugin, calls, held, call, running

\* basePlugin is a BasePlugin a caller constructed itself and calls is the record
\* of the calls made on it; held is what the callers keep of the results of
\* PluginManager::getPlugin and createComponent; call is the last call a
\* caller made on the circuit, a component or a node; running is, for each
\* thread that calls the PluginManager concurrently with others, where it is
\* in the operation it has called
uvars == <<basePlugin, calls, held, running>>
cvars == <<comp, node, components_, nodes_, sim, call>>
pvars == <<plugins_, plugin_handles_, loads, ret, basePlugin, calls, held, running>>
vars == <<comp, node, components_, nodes_, sim, plugins_, plugin_handles_, loads, ret,
          basePlugin, calls, held, call, running>>

----------------------------------------------------------------------------
(* Bounds of the model *)

MaxId == 2
MaxTerminals == 2
MaxSteps == 3
MaxMagnitude == 5000
MaxLoads == 3
MaxCalls == 5
MaxHeld == 2
MaxAttached == 3
MaxRepeat == 2
MaxEntries == 2
MaxCleanups == 2

\* the component objects and the node objects the callers hold
Comps == {1, 2}
Nodes == {1, 2}
Null == 0
EmptyId == 0
Ids == 0..MaxId

----------------------------------------------------------------------------
(* double arithmetic, exact *)

Abs(x) == IF x < 0 THEN -x ELSE x

Sign(x) == IF x < 0 THEN -1 ELSE IF x > 0 THEN 1 ELSE 0

Gcd[a \in Nat, b \in Nat] == IF b = 0 THEN a ELSE Gcd[b, a % b]

Norm[n \in Int, d \in Int] ==
    IF d = 0 THEN <<Sign(n), 0>>
    ELSE LET g == Gcd[Abs(n), Abs(d)]
         IN  IF d < 0 THEN <<(-n) \div g, (-d) \div g>> ELSE <<n \div g, d \div g>>

\* a double: n/d in lowest terms with d > 0, or an infinity or NaN with d = 0
Double == Int \X Int

Num(i) == <<i, 1>>
Zero == <<0, 1>>
NaN == <<0, 0>>
IsNaN(a) == a = NaN
IsInf(a) == a[2] = 0 /\ a[1] # 0
IsFinite(a) == a[2] > 0

Neg(a) == <<-a[1], a[2]>>

DAdd[a \in Double, b \in Double] ==
    IF IsNaN(a) \/ IsNaN(b) THEN NaN
    ELSE IF IsInf(a) /\ IsInf(b) THEN (IF a = b THEN a ELSE NaN)
    ELSE IF IsInf(a) THEN a
    ELSE IF IsInf(b) THEN b
    ELSE LET g == Gcd[a[2], b[2]]
         IN  Norm[a[1] * (b[2] \div g) + b[1] * (a[2] \div g), (a[2] \div g) * b[2]]

DSub[a \in Double, b \in Double] == DAdd[a, Neg(b)]

DMul[a \in Double, b \in Double] ==
    IF IsNaN(a) \/ IsNaN(b) THEN NaN
    ELSE IF IsInf(a) \/ IsInf(b)
         THEN (IF a[1] = 0 \/ b[1] = 0 THEN NaN ELSE <<Sign(a[1]) * Sign(b[1]), 0>>)
    ELSE LET g1 == Gcd[Abs(a[1]), b[2]]
             g2 == Gcd[Abs(b[1]), a[2]]
         IN  Norm[(a[1] \div g1) * (b[1] \div g2), (a[2] \div g2) * (b[2] \div g1)]

\* the divisors of the program are never a negative zero
DDiv[a \in Double, b \in Double] ==
    IF IsNaN(a) \/ IsNaN(b) THEN NaN
    ELSE IF IsInf(b) THEN (IF IsInf(a) THEN NaN ELSE Zero)
    ELSE IF b[1] = 0 THEN (IF a[1] = 0 THEN NaN ELSE <<Sign(a[1]), 0>>)
    ELSE IF IsInf(a) THEN <<Sign(a[1]) * Sign(b[1]), 0>>
    ELSE DMul[a, Norm[b[2], b[1]]]

\* a < b on doubles: false when either side is NaN
DLess[a \in Double, b \in Double] ==
    IF IsNaN(a) \/ IsNaN(b) THEN FALSE
    ELSE IF IsInf(a) \/ IsInf(b)
         THEN (IF IsInf(a) /\ IsInf(b) THEN a[1] < b[1]
               ELSE IF IsInf(a) THEN a[1] < 0 ELSE b[1] > 0)
    ELSE a[1] * b[2] < b[1] * a[2]

----------------------------------------------------------------------------
(* maps with ordered keys (std::map) *)

EmptyMap == << >>

MapPut(m, k, v) == [x \in (DOMAIN m) \cup {k} |-> IF x = k THEN v ELSE m[x]]

MapErase(m, k) == [x \in (DOMAIN m) \ {k} |-> m[x]]

RECURSIVE SortedKeys(_)
SortedKeys(S) ==
    IF S = {} THEN << >>
    ELSE LET k == CHOOSE x \in S : \A y \in S : x <= y
         IN  <<k>> \o SortedKeys(S \ {k})

----------------------------------------------------------------------------
(* components: construction *)

Kinds == {"Resistor", "Capacitor", "Inductor", "Diode"}

\* the value of a Diode's current_: 0.0 after construction, -1e-12 when
\* reverse biased, 1e-12 * (exp(x) - 1) when forward biased
DiodeZero == [law |-> "zero", x |-> Zero]
DiodeLeak == [law |-> "leak", x |-> Zero]
DiodeForward(x) == [law |-> "forward", x |-> x]

NewResistor(resistance) ==
    [kind |-> "Resistor", id_ |-> EmptyId, nodes_ |-> << >>,
     resistance_ |-> resistance, current_ |-> Zero]

NewCapacitor(capacitance) ==
    [kind |-> "Capacitor", id_ |-> EmptyId, nodes_ |-> << >>,
     capacitance_ |-> capacitance, charge_ |-> Zero, voltage_ |-> Zero]

NewInductor(inductance) ==
    [kind |-> "Inductor", id_ |-> EmptyId, nodes_ |-> << >>,
     inductance_ |-> inductance, current_ |-> Zero, voltage_ |-> Zero]

NewDiode(forward_voltage) ==
    [kind |-> "Diode", id_ |-> EmptyId, nodes_ |-> << >>,
     forward_voltage_ |-> forward_voltage, current_ |-> DiodeZero]

NewNode(id) == [id_ |-> id, voltage_ |-> Zero, connected_components_ |-> << >>]

\* parameter values used by the tests and by the plugin's defaults
TestResistance == <<1000, 1>>
TestCapacitance == <<1, 1000000>>
DefaultInductance == <<1, 1000>>
DefaultForwardVoltage == <<7, 10>>
ThermalVoltage == <<26, 1000>>

NewComponent(k) ==
    CASE k = "Resistor" -> NewResistor(TestResistance)
      [] k = "Capacitor" -> NewCapacitor(TestCapacitance)
      [] k = "Inductor" -> NewInductor(DefaultInductance)
      [] k = "Diode" -> NewDiode(DefaultForwardVoltage)

----------------------------------------------------------------------------
(* components: simulate(timestep).  h = [comp, node, log] is the heap of    *)
(* objects together with the record of the simulate calls made so far.      *)

VoltageDiff(h, c) ==
    DSub[h.node[h.comp[c].nodes_[1]].voltage_, h.node[h.comp[c].nodes_[2]].voltage_]

\* Resistor_simulate that takes a missing second terminal for ground
Resistor_simulate_GroundsMissing(h, c, timestep) ==
    IF Len(h.comp[c].nodes_) >= 2
    THEN LET voltage_diff == VoltageDiff(h, c)
         IN  [h EXCEPT !.comp[c].current_ = DDiv[voltage_diff, h.comp[c].resistance_]]
    ELSE IF Len(h.comp[c].nodes_) = 1
         THEN [h EXCEPT !.comp[c].current_ =
                            DDiv[h.node[h.comp[c].nodes_[1]].voltage_,
                                 h.comp[c].resistance_]]
         ELSE h

\* Resistor_simulate whose current is scaled by the timestep
Resistor_simulate_ScalesWithTimestep(h, c, timestep) ==
    IF Len(h.comp[c].nodes_) >= 2
    THEN LET voltage_diff == VoltageDiff(h, c)
         IN  [h EXCEPT !.comp[c].current_ =
                           DMul[DDiv[voltage_diff, h.comp[c].resistance_], timestep]]
    ELSE h

Resistor_simulate(h, c, timestep) ==
    IF Len(h.comp[c].nodes_) >= 2
    THEN LET voltage_diff == VoltageDiff(h, c)
         IN  [h EXCEPT !.comp[c].current_ = DDiv[voltage_diff, h.comp[c].resistance_]]
    ELSE h

\* Capacitor_simulate that adds the current itself to the charge
Capacitor_simulate_AddsCurrent(h, c, timestep) ==
    IF Len(h.comp[c].nodes_) >= 2
    THEN LET new_voltage == VoltageDiff(h, c)
             current == DDiv[DMul[h.comp[c].capacitance_,
                                  DSub[new_voltage, h.comp[c].voltage_]], timestep]
         IN  [h EXCEPT !.comp[c].charge_ = DAdd[@, current],
                       !.comp[c].voltage_ = new_voltage]
    ELSE h

\* Capacitor_simulate whose stored voltage moves half of the way to the
\* terminal voltage difference
Capacitor_simulate_Relaxes(h, c, timestep) ==
    IF Len(h.comp[c].nodes_) >= 2
    THEN LET new_voltage == VoltageDiff(h, c)
             current == DDiv[DMul[h.comp[c].capacitance_,
                                  DSub[new_voltage, h.comp[c].voltage_]], timestep]
         IN  [h EXCEPT !.comp[c].charge_ = DAdd[@, DMul[current, timestep]],
                       !.comp[c].voltage_ =
                           DAdd[@, DDiv[DSub[new_voltage, @], Num(2)]]]
    ELSE h

Capacitor_simulate(h, c, timestep) ==
    IF Len(h.comp[c].nodes_) >= 2
    THEN LET new_voltage == VoltageDiff(h, c)
             current == DDiv[DMul[h.comp[c].capacitance_,
                                  DSub[new_voltage, h.comp[c].voltage_]], timestep]
         IN  [h EXCEPT !.comp[c].charge_ = DAdd[@, DMul[current, timestep]],
                       !.comp[c].voltage_ = new_voltage]
    ELSE h

\* Inductor_simulate that also drives its second terminal to the first's voltage
Inductor_simulate_DrivesNode(h, c, timestep) ==
    IF Len(h.comp[c].nodes_) >= 2
    THEN LET voltage_diff == VoltageDiff(h, c)
             current_change == DDiv[DMul[voltage_diff, timestep], h.comp[c].inductance_]
         IN  [h EXCEPT !.comp[c].current_ = DAdd[@, current_change],
                       !.comp[c].voltage_ = voltage_diff,
                       !.node[h.comp[c].nodes_[2]].voltage_ =
                           h.node[h.comp[c].nodes_[1]].voltage_]
    ELSE h

Inductor_simulate(h, c, timestep) ==
    IF Len(h.comp[c].nodes_) >= 2
    THEN LET voltage_diff == VoltageDiff(h, c)
             current_change == DDiv[DMul[voltage_diff, timestep], h.comp[c].inductance_]
         IN  [h EXCEPT !.comp[c].current_ = DAdd[@, current_change],
                       !.comp[c].voltage_ = voltage_diff]
    ELSE h

\* Diode_simulate that, forward biased, clamps its first node to the
\* threshold above its second
Diode_simulate_ClampsNode(h, c, timestep) ==
    IF Len(h.comp[c].nodes_) >= 2
    THEN LET voltage_diff == VoltageDiff(h, c)
         IN  IF DLess[h.comp[c].forward_voltage_, voltage_diff]
             THEN [h EXCEPT !.comp[c].current_ =
                                DiodeForward(DDiv[voltage_diff, ThermalVoltage]),
                            !.node[h.comp[c].nodes_[1]].voltage_ =
                                DAdd[h.node[h.comp[c].nodes_[2]].voltage_,
                                     h.comp[c].forward_voltage_]]
             ELSE [h EXCEPT !.comp[c].current_ = DiodeLeak]
    ELSE h

Diode_simulate(h, c, timestep) ==
    IF Len(h.comp[c].nodes_) >= 2
    THEN LET voltage_diff == VoltageDiff(h, c)
         IN  IF DLess[h.comp[c].forward_voltage_, voltage_diff]
             THEN [h EXCEPT !.comp[c].current_ =
                                DiodeForward(DDiv[voltage_diff, ThermalVoltage])]
             ELSE [h EXCEPT !.comp[c].current_ = DiodeLeak]
    ELSE h

\* the virtual call component->getCurrentValue(): the Capacitor returns its
\* stored voltage, every other variant its current
Component_getCurrentValue(h, c) ==
    IF h.comp[c].kind = "Capacitor" THEN h.comp[c].voltage_ ELSE h.comp[c].current_

\* the virtual call component->simulate(timestep); the call is recorded
Component_simulate(h, c, timestep) ==
    LET called == [h EXCEPT !.log = Append(@, <<c, timestep>>)]
    IN  CASE h.comp[c].kind = "Resistor" -> Resistor_simulate(called, c, timestep)
          [] h.comp[c].kind = "Capacitor" -> Capacitor_simulate(called, c, timestep)
          [] h.comp[c].kind = "Inductor" -> Inductor_simulate(called, c, timestep)
          [] h.comp[c].kind = "Diode" -> Diode_simulate(called, c, timestep)

\* connect(node) of every variant: push_back, then node->addComponent(this)
\* Node_addComponent that keeps one back-reference to each component
Node_addComponent_Dedup(h, n, c) ==
    IF \E i \in DOMAIN h.node[n].connected_components_ :
           h.node[n].connected_components_[i] = c
    THEN h
    ELSE [h EXCEPT !.node[n].connected_components_ = Append(@, c)]

Node_addComponent(h, n, c) ==
    [h EXCEPT !.node[n].connected_components_ = Append(@, c)]

Component_connect(h, c, n) ==
    Node_addComponent([h EXCEPT !.comp[c].nodes_ = Append(@, n)], n, c)

----------------------------------------------------------------------------
(* Circuit *)

\* Circuit_addComponent with std::map::insert, which keeps an entry that exists
Circuit_addComponent_KeepsFirst(m, h, c) ==
    IF c # Null /\ h.comp[c].id_ # EmptyId /\ h.comp[c].id_ \notin DOMAIN m
    THEN MapPut(m, h.comp[c].id_, c) ELSE m

Circuit_addComponent(m, h, c) ==
    IF c # Null /\ h.comp[c].id_ # EmptyId THEN MapPut(m, h.comp[c].id_, c) ELSE m

\* Circuit_addNode without the test for an empty id
Circuit_addNode_AcceptsEmptyId(m, h, n) ==
    IF n # Null THEN MapPut(m, h.node[n].id_, n) ELSE m

Circuit_addNode(m, h, n) ==
    IF n # Null /\ h.node[n].id_ # EmptyId THEN MapPut(m, h.node[n].id_, n) ELSE m

Circuit_getComponent(m, id) == IF id \in DOMAIN m THEN m[id] ELSE Null

Circuit_getNode(m, id) == IF id \in DOMAIN m THEN m[id] ELSE Null

\* IterationOrder as a container ordered the other way round would give it
RECURSIVE DescendingKeys(_)
DescendingKeys(S) ==
    IF S = {} THEN << >>
    ELSE LET k == CHOOSE x \in S : \A y \in S : x >= y
         IN  <<k>> \o DescendingKeys(S \ {k})

IterationOrder_Descending(m) == DescendingKeys(DOMAIN m)

\* the order in which a range-for visits a std::map
IterationOrder(m) == SortedKeys(DOMAIN m)

\* for (auto& [id, component] : components_) component->simulate(timestep);
RECURSIVE SimulateAll(_, _, _, _)
SimulateAll(h, m, keys, timestep) ==
    IF keys = << >> THEN h
    ELSE SimulateAll(Component_simulate(h, m[Head(keys)], timestep), m, Tail(keys), timestep)

\* for (auto& [id, node] : nodes_) node->setVoltage(0.0);
RECURSIVE ResetAll(_, _, _)
ResetAll(h, m, keys) ==
    IF keys = << >> THEN h
    ELSE ResetAll([h EXCEPT !.node[m[Head(keys)]].voltage_ = Zero], m, Tail(keys))

\* Circuit_reset that clears the components' state as well
Circuit_reset_Symmetric(h, m) ==
    LET r == ResetAll(h, m, IterationOrder(m))
    IN  [r EXCEPT !.comp = [c \in DOMAIN r.comp |->
                               [NewComponent(r.comp[c].kind) EXCEPT
                                    !.id_ = r.comp[c].id_,
                                    !.nodes_ = r.comp[c].nodes_]]]

Circuit_reset(h, m) == ResetAll(h, m, IterationOrder(m))

----------------------------------------------------------------------------
(* plugin libraries: what dlopen, dlsym, the factory and the plugin do for  *)
(* each path a caller can pass.  Names and type tags are coded like ids.    *)
(* Types: 1 = "Diode", 2 = "Inductor", 3 = "Widget", 4 = "Nonexistent".     *)

Library(opens, exports, creates, inits, name, supported, produces) ==
    [opens |-> opens, exports |-> exports, creates |-> creates, inits |-> inits,
     name |-> name, supported |-> supported, produces |-> produces]

Libraries ==
    <<Library(FALSE, FALSE, FALSE, FALSE, 0, {}, {}),      \* "nonexistent.so"
      Library(TRUE, FALSE, FALSE, FALSE, 0, {}, {}),       \* no createPlugin symbol
      Library(TRUE, TRUE, FALSE, FALSE, 0, {}, {}),        \* factory returns nullptr
      Library(TRUE, TRUE, TRUE, FALSE, 1, {1}, {1}),       \* doInitialize fails
      Library(TRUE, TRUE, TRUE, TRUE, 2, {1, 2}, {1, 2}),  \* ExamplePlugin
      Library(TRUE, TRUE, TRUE, TRUE, 1, {1, 3}, {3}),     \* lists Diode, makes none
      Library(TRUE, TRUE, TRUE, TRUE, 2, {2, 3}, {2, 3})>> \* reports ExamplePlugin's name

Paths == DOMAIN Libraries
Names == 1..2
Types == 1..4

NoComponent == [type |-> 0, plugin |-> 0]

\* the bookkeeping of one LOAD_LIBRARY that succeeded and of the instance
\* its factory produced
NewHandle(path) ==
    [path |-> path, closed |-> 0, created |-> FALSE, initialized_ |-> FALSE,
     initCalls |-> 0, cleanupCalls |-> 0, doCleanupCalls |-> 0, registered |-> FALSE]

CloseLibrary(M, h) == [M EXCEPT !.loads[h].closed = @ + 1]

\* BasePlugin::initialize and BasePlugin::cleanup of instance p
BasePlugin_initialize(M, p) ==
    IF ~M.loads[p].initialized_
    THEN [M EXCEPT !.loads[p].initialized_ = Libraries[M.loads[p].path].inits,
                   !.loads[p].initCalls = @ + 1]
    ELSE M

BasePlugin_cleanup(M, p) ==
    LET called == [M EXCEPT !.loads[p].cleanupCalls = @ + 1]
    IN  IF M.loads[p].initialized_
        THEN [called EXCEPT !.loads[p].doCleanupCalls = @ + 1,
                            !.loads[p].initialized_ = FALSE]
        ELSE called

Plugin_getName(M, p) == Libraries[M.loads[p].path].name

Plugin_getSupportedComponents(M, p) == Libraries[M.loads[p].path].supported

Plugin_createComponent(M, p, type) ==
    IF type \in Libraries[M.loads[p].path].produces
    THEN [type |-> type, plugin |-> p]
    ELSE NoComponent

\* BasePlugin::initialize and BasePlugin::cleanup on a plugin object b.
\* doInitialize is the outcome the subclass's doInitialize() has if called;
\* the value initialize() returns is the initialized_ it leaves.

\* initialize without the guard on initialized_
initialize_Unguarded(b, doInitialize) == [b EXCEPT !.initialized_ = doInitialize]

initialize(b, doInitialize) ==
    IF ~b.initialized_ THEN [b EXCEPT !.initialized_ = doInitialize] ELSE b

\* whether the call runs doInitialize / doCleanup
initialize_invokes(b) == ~b.initialized_

cleanup_invokes(b) == b.initialized_

\* cleanup that runs doCleanup and leaves initialized_ set
cleanup_KeepsInitialized(b) == b

cleanup(b) ==
    IF b.initialized_ THEN [b EXCEPT !.initialized_ = FALSE] ELSE b

----------------------------------------------------------------------------
(* PluginManager.  M = [plugins_, plugin_handles_, loads]; an operation     *)
(* yields the manager's next state and the value it returns.                *)

Outcome(M, result) == [M |-> M, result |-> result]

\* StorePlugin with std::map::insert, which keeps an entry that exists
StorePlugin_Insert(M, p) ==
    LET plugin_name == Plugin_getName(M, p)
    IN  IF plugin_name \in DOMAIN M.plugins_
        THEN [M EXCEPT !.loads[p].registered = TRUE]
        ELSE [M EXCEPT !.plugins_ = MapPut(@, plugin_name, p),
                       !.plugin_handles_ = MapPut(@, plugin_name, p),
                       !.loads[p].registered = TRUE]

\* StorePlugin without the entry of plugin_handles_
StorePlugin_ForgetsHandle(M, p) ==
    LET plugin_name == Plugin_getName(M, p)
    IN  [M EXCEPT !.plugins_ = MapPut(@, plugin_name, p),
                  !.loads[p].registered = TRUE]

\* store the plugin and its handle under the name the plugin reports
StorePlugin(M, p) ==
    LET plugin_name == Plugin_getName(M, p)
    IN  [M EXCEPT !.plugins_ = MapPut(@, plugin_name, p),
                  !.plugin_handles_ = MapPut(@, plugin_name, p),
                  !.loads[p].registered = TRUE]

\* PluginManager_loadPlugin without CLOSE_LIBRARY when initialize() fails
PluginManager_loadPlugin_LeakOnInitFailure(M, plugin_path) ==
    IF ~Libraries[plugin_path].opens THEN Outcome(M, FALSE)
    ELSE LET handle == Len(M.loads) + 1
             opened == [M EXCEPT !.loads = Append(@, NewHandle(plugin_path))]
         IN  IF ~Libraries[plugin_path].exports
             THEN Outcome(CloseLibrary(opened, handle), FALSE)
             ELSE IF ~Libraries[plugin_path].creates
             THEN Outcome(CloseLibrary(opened, handle), FALSE)
             ELSE LET made == [opened EXCEPT !.loads[handle].created = TRUE]
                      inited == BasePlugin_initialize(made, handle)
                  IN  IF ~inited.loads[handle].initialized_
                      THEN Outcome(inited, FALSE)
                      ELSE Outcome(StorePlugin(inited, handle), TRUE)

PluginManager_loadPlugin(M, plugin_path) ==
    IF ~Libraries[plugin_path].opens THEN Outcome(M, FALSE)
    ELSE LET handle == Len(M.loads) + 1
             opened == [M EXCEPT !.loads = Append(@, NewHandle(plugin_path))]
         IN  IF ~Libraries[plugin_path].exports
             THEN Outcome(CloseLibrary(opened, handle), FALSE)
             ELSE IF ~Libraries[plugin_path].creates
             THEN Outcome(CloseLibrary(opened, handle), FALSE)
             ELSE LET made == [opened EXCEPT !.loads[handle].created = TRUE]
                      inited == BasePlugin_initialize(made, handle)
                  IN  IF ~inited.loads[handle].initialized_
                      THEN Outcome(CloseLibrary(inited, handle), FALSE)
                      ELSE Outcome(StorePlugin(inited, handle), TRUE)

\* PluginManager_unloadPlugin that forgets the entry of plugin_handles_
PluginManager_unloadPlugin_KeepsHandle(M, plugin_name) ==
    IF plugin_name \notin DOMAIN M.plugins_ THEN Outcome(M, FALSE)
    ELSE LET cleaned == BasePlugin_cleanup(M, M.plugins_[plugin_name])
         IN  Outcome([cleaned EXCEPT !.plugins_ = MapErase(@, plugin_name)], TRUE)

PluginManager_unloadPlugin(M, plugin_name) ==
    IF plugin_name \notin DOMAIN M.plugins_ THEN Outcome(M, FALSE)
    ELSE LET cleaned == BasePlugin_cleanup(M, M.plugins_[plugin_name])
             erased == [cleaned EXCEPT !.plugins_ = MapErase(@, plugin_name)]
         IN  IF plugin_name \in DOMAIN erased.plugin_handles_
             THEN Outcome([CloseLibrary(erased, erased.plugin_handles_[plugin_name])
                              EXCEPT !.plugin_handles_ = MapErase(@, plugin_name)], TRUE)
             ELSE Outcome(erased, TRUE)

RECURSIVE UnloadEach(_, _)
UnloadEach(M, plugin_names) ==
    IF plugin_names = << >> THEN M
    ELSE UnloadEach(PluginManager_unloadPlugin(M, Head(plugin_names)).M, Tail(plugin_names))

\* PluginManager_unloadAllPlugins that erases while it iterates and so
\* misses every second name
PluginManager_unloadAllPlugins_SkipsAlternate(M) ==
    LET plugin_names == IterationOrder(M.plugins_)
        odd == {i \in DOMAIN plugin_names : i % 2 = 1}
    IN  UnloadEach(M, [k \in 1..Cardinality(odd) |-> plugin_names[2 * k - 1]])

PluginManager_unloadAllPlugins(M) == UnloadEach(M, IterationOrder(M.plugins_))

PluginManager_getLoadedPlugins(M) == IterationOrder(M.plugins_)

PluginManager_getPlugin(M, name) ==
    IF name \in DOMAIN M.plugins_ THEN M.plugins_[name] ELSE Null

\* TryPlugins that returns whatever the first plugin listing the type makes
RECURSIVE TryPlugins_FirstLister(_, _, _)
TryPlugins_FirstLister(M, names, type) ==
    IF names = << >> THEN NoComponent
    ELSE LET plugin == M.plugins_[Head(names)]
         IN  IF type \in Plugin_getSupportedComponents(M, plugin)
             THEN Plugin_createComponent(M, plugin, type)
             ELSE TryPlugins_FirstLister(M, Tail(names), type)

RECURSIVE TryPlugins(_, _, _)
TryPlugins(M, names, type) ==
    IF names = << >> THEN NoComponent
    ELSE LET plugin == M.plugins_[Head(names)]
             component == IF type \in Plugin_getSupportedComponents(M, plugin)
                          THEN Plugin_createComponent(M, plugin, type)
                          ELSE NoComponent
         IN  IF component # NoComponent THEN component
             ELSE TryPlugins(M, Tail(names), type)

PluginManager_createComponent(M, type) == TryPlugins(M, IterationOrder(M.plugins_), type)

----------------------------------------------------------------------------
(* PluginManager::discoverPlugins.  File names and paths are sequences of   *)
(* characters.  fs is what the file system answers during one call: whether *)
(* the path exists and is a directory, the entries in the order the         *)
(* directory_iterator yields them, and, if a std::filesystem call throws    *)
(* filesystem_error, after how many entries it does so.                     *)

\* the build for a platform other than Windows
LIBRARY_EXTENSION == <<".", "s", "o">>

\* std::string::npos; positions count from 1
npos == 0

\* std::string::find: the first position at which pat occurs in str
Find(str, pat) ==
    LET at == {i \in 1..(Len(str) - Len(pat) + 1) : SubSeq(str, i, i + Len(pat) - 1) = pat}
    IN  IF at = {} THEN npos ELSE CHOOSE i \in at : \A j \in at : i <= j

\* entry.path().string() of the entry called filename in directory
EntryPath(directory, filename) == directory \o <<"/">> \o filename

DirectoryEntry(filename, regular) == [filename |-> filename, is_regular_file |-> regular]

\* the entries a directory may hold: a.so, a.so.1 and a.s, regular files,
\* and d.so, a directory
EntryPool ==
    {DirectoryEntry(<<"a", ".", "s", "o">>, TRUE),
     DirectoryEntry(<<"a", ".", "s", "o", ".", "1">>, TRUE),
     DirectoryEntry(<<"a", ".", "s">>, TRUE),
     DirectoryEntry(<<"d", ".", "s", "o">>, FALSE)}

\* every listing of at most n entries with different names
Listings(n) ==
    UNION {{l \in [1..k -> EntryPool] : \A i, j \in 1..k : i # j => l[i] # l[j]} :
           k \in 0..n}

Missing == [exists |-> FALSE, is_directory |-> FALSE, listing |-> << >>,
            throws |-> FALSE, visited |-> 0]
NotADirectory == [exists |-> TRUE, is_directory |-> FALSE, listing |-> << >>,
                  throws |-> FALSE, visited |-> 0]

FileSystems ==
    {Missing, NotADirectory} \cup
    {[exists |-> TRUE, is_directory |-> TRUE, listing |-> l, throws |-> FALSE,
      visited |-> Len(l)] : l \in Listings(MaxEntries)} \cup
    UNION {{[exists |-> TRUE, is_directory |-> TRUE, listing |-> l, throws |-> TRUE,
             visited |-> v] : v \in 0..Len(l)} : l \in Listings(MaxEntries)}

\* the body of the range-for over the first `visited` entries
RECURSIVE VisitEntries(_, _, _, _)
VisitEntries(directory, listing, visited, discovered_plugins) ==
    IF visited = 0 THEN discovered_plugins
    ELSE LET entry == listing[1]
             filename == entry.filename
             found == IF /\ entry.is_regular_file
                         /\ Find(filename, LIBRARY_EXTENSION) # npos
                      THEN Append(discovered_plugins, EntryPath(directory, filename))
                      ELSE discovered_plugins
         IN  VisitEntries(directory, Tail(listing), visited - 1, found)

\* PluginManager_discoverPlugins with neither the test of the path nor
\* the try block
PluginManager_discoverPlugins_Unchecked(directory, fs) ==
    IF ~(fs.exists /\ fs.is_directory)
    THEN [paths |-> << >>, raised |-> TRUE]
    ELSE [paths |-> VisitEntries(directory, fs.listing, fs.visited, << >>),
          raised |-> fs.throws]

\* what the call returns, and whether an exception leaves it: the catch
\* clause logs and falls through to `return discovered_plugins`
PluginManager_discoverPlugins(directory, fs) ==
    IF ~(fs.exists /\ fs.is_directory)
    THEN [paths |-> << >>, raised |-> FALSE]
    ELSE [paths |-> VisitEntries(directory, fs.listing, fs.visited, << >>),
          raised |-> FALSE]

----------------------------------------------------------------------------
(* state *)

Heap == [comp |-> comp, node |-> node, log |-> << >>]

Manager == [plugins_ |-> plugins_, plugin_handles_ |-> plugin_handles_, loads |-> loads]

Idle == [pc |-> "idle", time |-> 0, duration |-> 0, timestep |-> 0, steps |-> 0, log |-> << >>]

\* the voltages callers drive a node to: 0, the Diode's default threshold, 5
Voltages == {Zero, DefaultForwardVoltage, Num(5)}
Timesteps == (-1)..2
\* the arguments of Circuit::simulate: a duration and a timestep that is not
\* negative
Durations == (-1)..MaxSteps
SimTimesteps == 0..2

\* the directory the callers pass to discoverPlugins
PluginDirectory == <<"p">>

NoCall ==
    [op |-> "none", arg |-> 0, result |-> FALSE, names |-> << >>,
     component |-> NoComponent, instance |-> Null,
     fs |-> Missing, paths |-> << >>, raised |-> FALSE]

\* the record of the last call on the circuit side; repeat counts, up to
\* MaxRepeat, how many times in a row the caller has made this very call.
\* Untracked: the specification at hand does not follow the calls, and the
\* record stays as it is
Untracked == [op |-> "untracked", target |-> 0, arg |-> 0, value |-> Zero, repeat |-> 0]
NoCircuitCall == [op |-> "none", target |-> 0, arg |-> 0, value |-> Zero, repeat |-> 0]

Called(op, target, arg, value) ==
    call' = IF call = Untracked THEN call
            ELSE [op |-> op, target |-> target, arg |-> arg, value |-> value,
                  repeat |-> IF /\ call.op = op /\ call.target = target
                                /\ call.arg = arg /\ call.value = value
                                /\ call.repeat < MaxRepeat
                             THEN call.repeat + 1
                             ELSE IF /\ call.op = op /\ call.target = target
                                     /\ call.arg = arg /\ call.value = value
                                  THEN call.repeat
                                  ELSE 1]

\* the threads that call the manager concurrently, and a thread that is in
\* no operation.  name and handle are the locals plugin_name and handle of
\* loadPlugin and unloadPlugin, names what is left of plugin_names in
\* unloadAllPlugins or of the range-for of getLoadedPlugins, seen the names
\* vector getLoadedPlugins has filled so far
Threads == {1, 2}
IdleThread == [pc |-> "idle", name |-> 0, handle |-> 0, names |-> << >>, seen |-> << >>]

\* a BasePlugin after construction
NewPlugin == [initialized_ |-> FALSE]

\* every pair of components the model builds: the two built-in variants,
\* or the two variants of the example plugin
KindPairs == {<<"Resistor", "Capacitor">>, <<"Inductor", "Diode">>}

NewHeap(kinds) ==
    [comp |-> [c \in Comps |-> NewComponent(kinds[((c - 1) % 2) + 1])],
     node |-> [n \in Nodes |-> NewNode(n)],
     log |-> << >>]

\* the set-up of the tests and examples: every component is connected to
\* nodes 1 and 2, in this order, and node 1 is driven to 5 V
RECURSIVE ConnectAll(_, _)
ConnectAll(h, cs) ==
    IF cs = {} THEN h
    ELSE LET c == CHOOSE x \in cs : \A y \in cs : x <= y
         IN  ConnectAll(Component_connect(Component_connect(h, c, 1), c, 2), cs \ {c})

WiredHeap(kinds) ==
    [ConnectAll(NewHeap(kinds), Comps) EXCEPT !.node[1].voltage_ = Num(5)]

\* ... and every component has been given its own id and added
RECURSIVE AddAll(_, _, _)
AddAll(m, h, cs) ==
    IF cs = {} THEN m
    ELSE LET c == CHOOSE x \in cs : \A y \in cs : x <= y
         IN  AddAll(Circuit_addComponent(m, h, c), h, cs \ {c})

NamedHeap(kinds) ==
    LET h == NewHeap(kinds)
    IN  [h EXCEPT !.comp = [c \in Comps |-> [h.comp[c] EXCEPT !.id_ = ((c - 1) % MaxId) + 1]]]

\* Init of Spec: wired components, not yet named, an empty circuit
CircuitInit ==
    /\ \E kinds \in KindPairs :
          /\ comp = WiredHeap(kinds).comp
          /\ node = WiredHeap(kinds).node
    /\ components_ = EmptyMap
    /\ nodes_ = EmptyMap
    /\ sim = Idle
    /\ call = Untracked

\* in DeviceSpec the callers connect and advance the first component, of any
\* variant; the second one stays as it was added
Devices == {1}
DevicePairs == KindPairs \cup {<<p[2], p[1]>> : p \in KindPairs}

\* Init of DeviceSpec: named components in the circuit, not yet connected
DeviceInit ==
    /\ \E kinds \in DevicePairs :
          /\ comp = NamedHeap(kinds).comp
          /\ node = NamedHeap(kinds).node
          /\ components_ = AddAll(EmptyMap, NamedHeap(kinds), Comps)
    /\ nodes_ = EmptyMap
    /\ sim = Idle
    /\ call = Untracked

\* Init of FairSpec: the set-up of the integration test, components wired,
\* named and added
LoopInit ==
    /\ \E kinds \in KindPairs :
          LET w == WiredHeap(kinds)
              h == [w EXCEPT !.comp = [c \in Comps |->
                       [w.comp[c] EXCEPT !.id_ = ((c - 1) % MaxId) + 1]]]
          IN  /\ comp = h.comp
              /\ node = h.node
              /\ components_ = AddAll(EmptyMap, h, Comps)
    /\ nodes_ = EmptyMap
    /\ sim = Idle
    /\ call = Untracked

\* Init of RegistrySpec: new components, not yet named; the first node
\* constructed with id 1, the second with any id, the empty one and the
\* first node's included; an empty circuit
RegistryInit ==
    /\ \E kinds \in KindPairs : comp = NewHeap(kinds).comp
    /\ \E id \in Ids : node = [n \in Nodes |-> IF n = 1 THEN NewNode(1) ELSE NewNode(id)]
    /\ components_ = EmptyMap
    /\ nodes_ = EmptyMap
    /\ sim = Idle
    /\ call = NoCircuitCall

\* Init of BenchSpec: new components and nodes, nothing connected, every
\* node at 0 V, an empty circuit
BenchInit ==
    /\ \E kinds \in DevicePairs : comp = NewHeap(kinds).comp
    /\ node = NewHeap(<<"Resistor", "Capacitor">>).node
    /\ components_ = EmptyMap
    /\ nodes_ = EmptyMap
    /\ sim = Idle
    /\ call = NoCircuitCall

PluginInit ==
    /\ plugins_ = EmptyMap
    /\ plugin_handles_ = EmptyMap
    /\ loads = << >>
    /\ ret = NoCall
    /\ basePlugin = NewPlugin
    /\ calls = << >>
    /\ held = {}
    /\ running = [t \in Threads |-> IdleThread]

Init == CircuitInit /\ PluginInit

\* the inductor currents the model follows: an advance is followed while it
\* leaves them within MaxMagnitude, a call of Circuit::simulate when it
\* finds them there
InRange(cs) ==
    \A c \in Comps :
        cs[c].kind = "Inductor" =>
            Abs(cs[c].current_[1]) <= MaxMagnitude * cs[c].current_[2]

----------------------------------------------------------------------------
(* callers of the circuit; single-threaded, so nothing runs while           *)
(* Circuit::simulate is in its loop                                         *)

SetId(c, id) ==
    /\ sim.pc = "idle"
    /\ comp' = [comp EXCEPT ![c].id_ = id]
    /\ Called("setId", c, id, Zero)
    /\ UNCHANGED <<node, components_, nodes_, sim, pvars>>

Connect(c, n) ==
    /\ sim.pc = "idle"
    /\ Len(comp[c].nodes_) < MaxTerminals
    /\ LET h == Component_connect(Heap, c, n)
       IN  comp' = h.comp /\ node' = h.node
    /\ Called("connect", c, n, Zero)
    /\ UNCHANGED <<components_, nodes_, sim, pvars>>

\* connect, followed up to MaxAttached terminals
Attach(c, n) ==
    /\ sim.pc = "idle"
    /\ Len(comp[c].nodes_) < MaxAttached
    /\ LET h == Component_connect(Heap, c, n)
       IN  comp' = h.comp /\ node' = h.node
    /\ Called("connect", c, n, Zero)
    /\ UNCHANGED <<components_, nodes_, sim, pvars>>

SetVoltage(n, v) ==
    /\ sim.pc = "idle"
    /\ node' = [node EXCEPT ![n].voltage_ = v]
    /\ Called("setVoltage", n, 0, v)
    /\ UNCHANGED <<comp, components_, nodes_, sim, pvars>>

AddComponent(c) ==
    /\ sim.pc = "idle"
    /\ components_' = Circuit_addComponent(components_, Heap, c)
    /\ Called("addComponent", c, 0, Zero)
    /\ UNCHANGED <<comp, node, nodes_, sim, pvars>>

AddNode(n) ==
    /\ sim.pc = "idle"
    /\ nodes_' = Circuit_addNode(nodes_, Heap, n)
    /\ Called("addNode", n, 0, Zero)
    /\ UNCHANGED <<comp, node, components_, sim, pvars>>

Reset ==
    /\ sim.pc = "idle"
    /\ LET h == Circuit_reset(Heap, nodes_)
       IN  comp' = h.comp /\ node' = h.node
    /\ Called("reset", 0, 0, Zero)
    /\ UNCHANGED <<components_, nodes_, sim, pvars>>

\* component->simulate(timestep) called directly, as the examples do
Advance(c, timestep) ==
    /\ sim.pc = "idle"
    /\ LET h == Component_simulate(Heap, c, Num(timestep))
       IN  InRange(h.comp) /\ comp' = h.comp /\ node' = h.node
    /\ Called("simulate", c, timestep, Zero)
    /\ UNCHANGED <<components_, nodes_, sim, pvars>>

\* Circuit::simulate: entry (time = 0.0), the test of the while loop, the
\* body of the loop, return.  steps counts the bodies run, up to MaxSteps.
SimulateBegin(duration, timestep) ==
    /\ sim.pc = "idle"
    /\ InRange(comp)
    /\ sim' = [pc |-> "test", time |-> 0, duration |-> duration,
               timestep |-> timestep, steps |-> 0, log |-> << >>]
    /\ UNCHANGED <<comp, node, components_, nodes_, call, pvars>>

\* LoopCondition with <= for <
LoopCondition_Inclusive(s) == s.time <= s.duration

LoopCondition(s) == s.time < s.duration

SimTest ==
    /\ sim.pc = "test"
    /\ LoopCondition(sim)
    /\ sim' = [sim EXCEPT !.pc = "body"]
    /\ UNCHANGED <<comp, node, components_, nodes_, call, pvars>>

SimBody ==
    /\ sim.pc = "body"
    /\ LET h == SimulateAll(Heap, components_, IterationOrder(components_),
                            Num(sim.timestep))
       IN  /\ comp' = h.comp
           /\ node' = h.node
           /\ sim' = [sim EXCEPT !.pc = "test",
                                 !.time = @ + sim.timestep,
                                 !.steps = IF @ < MaxSteps THEN @ + 1 ELSE @,
                                 !.log = h.log]
    /\ UNCHANGED <<components_, nodes_, call, pvars>>

SimReturn ==
    /\ sim.pc = "test"
    /\ ~LoopCondition(sim)
    /\ sim' = Idle
    /\ UNCHANGED <<comp, node, components_, nodes_, call, pvars>>

----------------------------------------------------------------------------
(* callers of the plugin manager *)

Installed(result) ==
    /\ plugins_' = result.M.plugins_
    /\ plugin_handles_' = result.M.plugin_handles_
    /\ loads' = result.M.loads

LoadPlugin(path) ==
    /\ Len(loads) < MaxLoads
    /\ LET r == PluginManager_loadPlugin(Manager, path)
       IN  /\ Installed(r)
           /\ ret' = [NoCall EXCEPT !.op = "loadPlugin", !.arg = path,
                                     !.result = r.result]
    /\ UNCHANGED <<cvars, uvars>>

UnloadPlugin(name) ==
    /\ LET r == PluginManager_unloadPlugin(Manager, name)
       IN  /\ Installed(r)
           /\ ret' = [NoCall EXCEPT !.op = "unloadPlugin", !.arg = name,
                                     !.result = r.result]
    /\ UNCHANGED <<cvars, uvars>>

UnloadAllPlugins ==
    /\ Installed(Outcome(PluginManager_unloadAllPlugins(Manager), TRUE))
    /\ ret' = [NoCall EXCEPT !.op = "unloadAllPlugins"]
    /\ UNCHANGED <<cvars, uvars>>

GetLoadedPlugins ==
    /\ ret' = [NoCall EXCEPT !.op = "getLoadedPlugins",
                              !.names = PluginManager_getLoadedPlugins(Manager)]
    /\ UNCHANGED <<plugins_, plugin_handles_, loads, cvars, uvars>>

CreateComponent(type) ==
    /\ ret' = [NoCall EXCEPT !.op = "createComponent", !.arg = type,
                              !.component = PluginManager_createComponent(Manager, type)]
    /\ UNCHANGED <<plugins_, plugin_handles_, loads, cvars, uvars>>

GetPlugin(name) ==
    /\ ret' = [NoCall EXCEPT !.op = "getPlugin", !.arg = name,
                              !.instance = PluginManager_getPlugin(Manager, name)]
    /\ UNCHANGED <<plugins_, plugin_handles_, loads, cvars, uvars>>

DiscoverPlugins(fs) ==
    /\ LET r == PluginManager_discoverPlugins(PluginDirectory, fs)
       IN  ret' = [NoCall EXCEPT !.op = "discoverPlugins", !.fs = fs,
                                 !.paths = r.paths, !.raised = r.raised]
    /\ UNCHANGED <<plugins_, plugin_handles_, loads, cvars, uvars>>

\* what a caller has of the manager: a std::shared_ptr<IPlugin> to the
\* instance `of`, or a std::shared_ptr<Component> to a component whose class
\* is code of the library of instance `of`
PluginRef(p) == [kind |-> "plugin", of |-> p]
ComponentRef(p) == [kind |-> "component", of |-> p]

\* auto plugin = pm.getPlugin(name); auto inductor = pm.createComponent(...):
\* the caller keeps the pointer the last call returned
Keep ==
    /\ Cardinality(held) < MaxHeld
    /\ \/ /\ ret.op = "getPlugin" /\ ret.instance # Null
          /\ held' = held \cup {PluginRef(ret.instance)}
       \/ /\ ret.op = "createComponent" /\ ret.component # NoComponent
          /\ held' = held \cup {ComponentRef(ret.component.plugin)}
    /\ UNCHANGED <<plugins_, plugin_handles_, loads, ret, cvars, basePlugin, calls, running>>

\* a pointer the caller kept goes out of scope
Drop(r) ==
    /\ r \in held
    /\ held' = held \ {r}
    /\ UNCHANGED <<plugins_, plugin_handles_, loads, ret, cvars, basePlugin, calls, running>>

\* plugin->cleanup() and plugin->initialize() called by a caller on a
\* std::shared_ptr<IPlugin> it kept from getPlugin; followed for up to
\* MaxCleanups calls of cleanup() on an instance
HeldCleanup(r) ==
    /\ r \in held
    /\ r.kind = "plugin"
    /\ loads[r.of].cleanupCalls < MaxCleanups
    /\ loads' = BasePlugin_cleanup(Manager, r.of).loads
    /\ UNCHANGED <<plugins_, plugin_handles_, ret, cvars, uvars>>

HeldInitialize(r) ==
    /\ r \in held
    /\ r.kind = "plugin"
    /\ loads' = BasePlugin_initialize(Manager, r.of).loads
    /\ UNCHANGED <<plugins_, plugin_handles_, ret, cvars, uvars>>

----------------------------------------------------------------------------
(* several threads calling PluginManager::getInstance() and its methods.    *)
(* The manager has no lock; a step is one statement that touches plugins_   *)
(* or plugin_handles_, together with the thread-local code before it.       *)

\* the libraries the threads load: the example plugin, one of another
\* name, and one that reports the example plugin's name
ConcurrentPaths == {5, 6, 7}

\* loadPlugin up to `plugins_[plugin_name] = plugin;`
LoadStorePlugin(t, path) ==
    /\ running[t].pc = "idle"
    /\ Len(loads) < MaxLoads
    /\ LET r == PluginManager_loadPlugin(Manager, path)
           handle == Len(r.M.loads)
       IN  /\ r.result
           /\ plugins_' = r.M.plugins_
           /\ loads' = r.M.loads
           /\ running' = [running EXCEPT ![t] =
                  [IdleThread EXCEPT !.pc = "storing",
                                     !.name = Plugin_getName(r.M, handle),
                                     !.handle = handle]]
    /\ UNCHANGED <<plugin_handles_, ret, cvars, basePlugin, calls, held>>

\* `plugin_handles_[plugin_name] = handle;` and the return
LoadStoreHandle(t) ==
    /\ running[t].pc = "storing"
    /\ plugin_handles_' = MapPut(plugin_handles_, running[t].name, running[t].handle)
    /\ running' = [running EXCEPT ![t] = IdleThread]
    /\ UNCHANGED <<plugins_, loads, ret, cvars, basePlugin, calls, held>>

\* unloadPlugin(plugin_name) up to `plugins_.erase(plugin_it);`, with
\* names left to unload after it
ErasePlugin(t, plugin_name, names) ==
    /\ plugin_name \in DOMAIN plugins_
    /\ loads' = BasePlugin_cleanup(Manager, plugins_[plugin_name]).loads
    /\ plugins_' = MapErase(plugins_, plugin_name)
    /\ running' = [running EXCEPT ![t] =
           [IdleThread EXCEPT !.pc = "erasing", !.name = plugin_name, !.names = names]]
    /\ UNCHANGED <<plugin_handles_, ret, cvars, basePlugin, calls, held>>

UnloadErasePlugin(t, plugin_name) ==
    /\ running[t].pc = "idle"
    /\ ErasePlugin(t, plugin_name, << >>)

\* the rest of unloadPlugin: find the handle, close it, erase it, return
UnloadEraseHandle(t) ==
    /\ running[t].pc = "erasing"
    /\ LET plugin_name == running[t].name
       IN  IF plugin_name \in DOMAIN plugin_handles_
           THEN /\ loads' = CloseLibrary(Manager, plugin_handles_[plugin_name]).loads
                /\ plugin_handles_' = MapErase(plugin_handles_, plugin_name)
           ELSE UNCHANGED <<loads, plugin_handles_>>
    /\ running' = [running EXCEPT ![t] =
           IF running[t].names = << >> THEN IdleThread
           ELSE [IdleThread EXCEPT !.pc = "unloading", !.names = running[t].names]]
    /\ UNCHANGED <<plugins_, ret, cvars, basePlugin, calls, held>>

\* unloadAllPlugins: the first loop, which copies the names
UnloadAllCollect(t) ==
    /\ running[t].pc = "idle"
    /\ plugins_ # EmptyMap
    /\ running' = [running EXCEPT ![t] =
           [IdleThread EXCEPT !.pc = "unloading", !.names = IterationOrder(plugins_)]]
    /\ UNCHANGED <<plugins_, plugin_handles_, loads, ret, cvars, basePlugin, calls, held>>

\* unloadAllPlugins: the next unloadPlugin(name) of the second loop; it
\* returns false at once if the name is no longer registered
UnloadAllNext(t) ==
    /\ running[t].pc = "unloading"
    /\ LET name == Head(running[t].names)
           rest == Tail(running[t].names)
       IN  IF name \in DOMAIN plugins_
           THEN ErasePlugin(t, name, rest)
           ELSE /\ running' = [running EXCEPT ![t] =
                       IF rest = << >> THEN IdleThread
                       ELSE [IdleThread EXCEPT !.pc = "unloading", !.names = rest]]
                /\ UNCHANGED <<plugins_, plugin_handles_, loads, ret, cvars,
                               basePlugin, calls, held>>

\* getLoadedPlugins: the range-for over plugins_ begins
IterateBegin(t) ==
    /\ running[t].pc = "idle"
    /\ plugins_ # EmptyMap
    /\ running' = [running EXCEPT ![t] =
           [IdleThread EXCEPT !.pc = "iterating", !.names = IterationOrder(plugins_)]]
    /\ UNCHANGED <<plugins_, plugin_handles_, loads, ret, cvars, basePlugin, calls, held>>

\* getLoadedPlugins: one more element.  If another thread has erased the
\* element the iterator stands on, the behaviour is undefined: the thread
\* may crash, or go on, with or without the name.
IterateNext(t) ==
    /\ running[t].pc = "iterating"
    /\ LET name == Head(running[t].names)
           rest == Tail(running[t].names)
           on(seen) == IF rest = << >> THEN [IdleThread EXCEPT !.seen = seen]
                       ELSE [running[t] EXCEPT !.names = rest, !.seen = seen]
       IN  IF name \in DOMAIN plugins_
           THEN running' = [running EXCEPT ![t] = on(Append(running[t].seen, name))]
           ELSE \/ running' = [running EXCEPT ![t] = [IdleThread EXCEPT !.pc = "crashed"]]
                \/ running' = [running EXCEPT ![t] = on(Append(running[t].seen, name))]
                \/ running' = [running EXCEPT ![t] = on(running[t].seen)]
    /\ UNCHANGED <<plugins_, plugin_handles_, loads, ret, cvars, basePlugin, calls, held>>

----------------------------------------------------------------------------
(* a caller of a BasePlugin it constructed itself; calls records, for each  *)
(* call, whether doInitialize / doCleanup ran and what the call returned    *)

Initialize(doInitialize) ==
    /\ Len(calls) < MaxCalls
    /\ basePlugin' = initialize(basePlugin, doInitialize)
    /\ calls' = Append(calls, [op |-> "initialize",
                               invoked |-> initialize_invokes(basePlugin),
                               result |-> basePlugin'.initialized_])
    /\ UNCHANGED <<cvars, plugins_, plugin_handles_, loads, ret, held, running>>

Cleanup ==
    /\ Len(calls) < MaxCalls
    /\ basePlugin' = cleanup(basePlugin)
    /\ calls' = Append(calls, [op |-> "cleanup",
                               invoked |-> cleanup_invokes(basePlugin),
                               result |-> FALSE])
    /\ UNCHANGED <<cvars, plugins_, plugin_handles_, loads, ret, held, running>>

----------------------------------------------------------------------------
(* specifications *)

\* the circuit as a registry of wired components, and its stepping loop
Next ==
    \/ \E c \in Comps, id \in Ids : SetId(c, id)
    \/ \E c \in Comps \cup {Null} : AddComponent(c)
    \/ \E c \in Comps, timestep \in Timesteps : Advance(c, timestep)
    \/ \E duration \in Durations, timestep \in SimTimesteps :
          SimulateBegin(duration, timestep)
    \/ SimTest
    \/ SimBody
    \/ SimReturn

Spec == Init /\ [][Next]_vars

\* the loop of Circuit::simulate runs on without waiting for anything
LoopNext ==
    \/ \E duration \in Durations, timestep \in SimTimesteps :
          SimulateBegin(duration, timestep)
    \/ SimTest
    \/ SimBody
    \/ SimReturn

LoopStart == LoopInit /\ PluginInit

FairSpec ==
    /\ LoopStart
    /\ [][LoopNext]_vars
    /\ WF_vars(SimTest) /\ WF_vars(SimBody) /\ WF_vars(SimReturn)

\* the components as devices between nodes: connections, node voltages,
\* single advances, reset
DeviceNext ==
    \/ \E c \in Devices, n \in Nodes : Connect(c, n)
    \/ \E n \in Nodes, v \in Voltages : SetVoltage(n, v)
    \/ \E n \in Nodes \cup {Null} : AddNode(n)
    \/ Reset
    \/ \E c \in Devices, timestep \in Timesteps : Advance(c, timestep)

DeviceStart == DeviceInit /\ PluginInit

DeviceSpec == DeviceStart /\ [][DeviceNext]_vars

\* one device on the bench: it is connected terminal by terminal, the
\* first node is driven while the second stays at 0 V, as in the tests, and
\* the device is advanced by any timestep
BenchNext ==
    \/ \E c \in Devices, n \in Nodes : Attach(c, n)
    \/ \E v \in Voltages : SetVoltage(1, v)
    \/ \E c \in Devices, timestep \in Timesteps : Advance(c, timestep)

BenchStart == BenchInit /\ PluginInit

BenchSpec == BenchStart /\ [][BenchNext]_vars

\* the circuit as two maps filled by addComponent and addNode
RegistryNext ==
    \/ \E c \in Comps, id \in Ids : SetId(c, id)
    \/ \E c \in Comps \cup {Null} : AddComponent(c)
    \/ \E n \in Nodes \cup {Null} : AddNode(n)

RegistryStart == RegistryInit /\ PluginInit

RegistrySpec == RegistryStart /\ [][RegistryNext]_vars

PluginNext ==
    \/ \E path \in Paths : LoadPlugin(path)
    \/ \E name \in Names : UnloadPlugin(name)
    \/ UnloadAllPlugins
    \/ GetLoadedPlugins
    \/ \E type \in Types : CreateComponent(type)

PluginCircuit ==
    /\ comp = [c \in Comps |-> NewComponent("Resistor")]
    /\ node = [n \in Nodes |-> NewNode(n)]
    /\ components_ = EmptyMap
    /\ nodes_ = EmptyMap
    /\ sim = Idle
    /\ call = Untracked

PluginStart == PluginCircuit /\ PluginInit

PluginSpec == PluginStart /\ [][PluginNext]_vars

\* the manager and the callers that keep what it hands out
OwnerNext ==
    \/ \E path \in Paths : LoadPlugin(path)
    \/ \E name \in Names : GetPlugin(name)
    \/ \E type \in Types : CreateComponent(type)
    \/ Keep
    \/ \E r \in held : Drop(r)
    \/ \E name \in Names : UnloadPlugin(name)
    \/ UnloadAllPlugins

OwnerSpec == PluginStart /\ [][OwnerNext]_vars

\* the libraries the test and the example load: nonexistent.so and the
\* example plugin
DiscoveryPaths == {1, 5}

\* the manager asked to discover plugins, between loads and unloads
DiscoveryNext ==
    \/ \E fs \in FileSystems : DiscoverPlugins(fs)
    \/ \E path \in DiscoveryPaths : LoadPlugin(path)
    \/ UnloadAllPlugins

DiscoverySpec == PluginStart /\ [][DiscoveryNext]_vars

\* the libraries loaded there: the example plugin and one of another name
ReferencePaths == {5, 6}

\* the manager and a caller that uses the plugin references it keeps
ReferenceNext ==
    \/ \E path \in ReferencePaths : LoadPlugin(path)
    \/ \E name \in Names : GetPlugin(name)
    \/ Keep
    \/ \E r \in held : HeldCleanup(r)
    \/ \E r \in held : HeldInitialize(r)
    \/ \E type \in Types : CreateComponent(type)
    \/ UnloadAllPlugins

ReferenceSpec == PluginStart /\ [][ReferenceNext]_vars

\* threads calling loadPlugin, unloadPlugin, unloadAllPlugins and
\* getLoadedPlugins with nothing to order them
ConcurrentNext ==
    \E t \in Threads :
        \/ \E path \in ConcurrentPaths : LoadStorePlugin(t, path)
        \/ LoadStoreHandle(t)
        \/ \E name \in Names : UnloadErasePlugin(t, name)
        \/ UnloadEraseHandle(t)
        \/ UnloadAllCollect(t)
        \/ UnloadAllNext(t)
        \/ IterateBegin(t)
        \/ IterateNext(t)

ConcurrentSpec == PluginStart /\ [][ConcurrentNext]_vars

\* a BasePlugin of any subclass under any sequence of initialize() and
\* cleanup() calls
LifecycleNext ==
    \/ \E doInitialize \in BOOLEAN : Initialize(doInitialize)
    \/ Cleanup

LifecycleSpec == PluginStart /\ [][LifecycleNext]_vars

----------------------------------------------------------------------------
(* Circuit::simulate: properties *)

Range(m) == {m[k] : k \in DOMAIN m}

Occurrences(log, c) == Cardinality({i \in DOMAIN log : log[i][1] = c})

\* position of key k in ascending key order
Rank(m, k) == Cardinality({j \in DOMAIN m : j <= k})

StepDone == sim.pc # "idle" /\ sim.steps > 0

C2_SimulateReturns == (sim.pc # "idle") ~> (sim.pc = "idle")

\* the number of steps C3 names: the least n >= 0 with n * timestep >= duration
LeastSteps(duration, timestep) ==
    CHOOSE n \in 0..MaxSteps :
        /\ n * timestep >= duration
        /\ \A m \in 0..(n - 1) : m * timestep < duration

\* C3: with timestep > 0, simulate returns after exactly the least n >= 0
\* steps with n * timestep >= duration, and after no step at all, no
\* component advanced, when duration <= 0.
C3_StepCount ==
    [][(sim.pc = "test" /\ sim'.pc = "idle" /\ sim.timestep > 0) =>
          /\ sim.steps = LeastSteps(sim.duration, sim.timestep)
          /\ sim.duration <= 0 => (sim.steps = 0 /\ sim.log = << >>)]_vars

\* simulate(3, 2) about to return after its second step
C3_Witness ==
    /\ sim.pc = "test"
    /\ sim.duration = 3 /\ sim.timestep = 2
    /\ sim.time = 4 /\ sim.steps = 2
    /\ Len(sim.log) > 0

----------------------------------------------------------------------------
(* components and reset: what an operation leaves alone *)

\* nothing but the internal state of the components in cs changes
OnlyWrites(cs) ==
    /\ node' = node
    /\ \A c \in Comps :
          /\ comp'[c].nodes_ = comp[c].nodes_
          /\ comp'[c].id_ = comp[c].id_
          /\ c \notin cs => comp'[c] = comp[c]

\* C4: a step of Circuit::simulate and an advance of any component leave
\* every node (voltage and back-references), every terminal list and every
\* component that is not advanced unchanged.
C4_AdvanceWritesOwnStateOnly ==
    [][/\ OnlyWrites(Range(components_)) \/ ~SimBody
       /\ \A c \in Comps :
             OnlyWrites({c}) \/ \A timestep \in Timesteps : ~Advance(c, timestep)]_vars

\* both components carry a computed state while node 1 is at 5 V
C4_Witness ==
    /\ node[1].voltage_ = Num(5)
    /\ \A c \in Comps :
          /\ Len(comp[c].nodes_) = 2
    /\ \E c \in Comps : comp[c].kind = "Inductor" /\ comp[c].voltage_ = Num(5)
    /\ \E c \in Comps : comp[c].kind = "Diode" /\ comp[c].current_.law = "forward"

\* C5: Circuit::reset sets the voltage of every node the circuit owns to 0
\* and changes no component and neither collection.
C5_ResetAsymmetry ==
    [][\/ /\ \A n \in Range(nodes_) : node'[n].voltage_ = Zero
          /\ comp' = comp
          /\ components_' = components_
          /\ nodes_' = nodes_
       \/ ~Reset]_vars

\* an owned node back at 0 V while the capacitor across it still holds the
\* 5 V and the charge it computed
C5_Witness ==
    /\ 1 \in Range(nodes_)
    /\ node[1].voltage_ = Zero /\ node[2].voltage_ = Zero
    /\ \E c \in Comps :
          /\ comp[c].kind = "Capacitor"
          /\ comp[c].nodes_ = <<1, 2>>
          /\ comp[c].voltage_ = Num(5)
          /\ comp[c].charge_ = DMul[TestCapacitance, Num(5)]

----------------------------------------------------------------------------
(* PluginManager: properties *)

Manager_next == [plugins_ |-> plugins_', plugin_handles_ |-> plugin_handles_',
                 loads |-> loads']

\* the handles opened by the step
Opened == (Len(loads) + 1)..Len(loads')

\* C6: a loadPlugin that returns false leaves plugins_ and plugin_handles_
\* as they were and has released every handle it opened.
C6_FailedLoadLeavesNothing ==
    [][(ret'.op = "loadPlugin" /\ ret'.result = FALSE) =>
          /\ plugins_' = plugins_
          /\ plugin_handles_' = plugin_handles_
          /\ \A h \in DOMAIN loads : loads'[h] = loads[h]
          /\ \A h \in Opened : loads'[h].closed = 1 /\ ~loads'[h].registered]_vars

\* the library whose plugin fails to initialize, loaded while a plugin is
\* registered under the name it reports
C6_Witness ==
    /\ ret.op = "loadPlugin" /\ ret.result = FALSE /\ ret.arg = 4
    /\ Libraries[4].name \in DOMAIN plugins_
    /\ loads[Len(loads)].path = 4
    /\ loads[Len(loads)].created /\ loads[Len(loads)].initCalls = 1
    /\ loads[Len(loads)].closed = 1

\* C7: once unloadAllPlugins has run, every instance that a successful
\* loadPlugin registered has had cleanup() called exactly once and its
\* handle released exactly once.
C7_CleanedAndReleasedOnce ==
    ret.op = "unloadAllPlugins" =>
        \A h \in DOMAIN loads :
            loads[h].registered => loads[h].cleanupCalls = 1 /\ loads[h].closed = 1

\* C8: unloadPlugin(name) returns false and changes nothing when name is not
\* registered; otherwise it calls cleanup() on the plugin, erases name from
\* plugins_ and plugin_handles_, releases the handle, returns true and
\* leaves every other entry alone; getLoadedPlugins() no longer lists name.
C8_UnloadPlugin ==
    [][ret'.op = "unloadPlugin" =>
          LET name == ret'.arg
          IN  IF name \notin DOMAIN plugins_
              THEN /\ ret'.result = FALSE
                   /\ plugins_' = plugins_
                   /\ plugin_handles_' = plugin_handles_
                   /\ loads' = loads
              ELSE /\ ret'.result = TRUE
                   /\ loads'[plugins_[name]].cleanupCalls
                          = loads[plugins_[name]].cleanupCalls + 1
                   /\ ~loads'[plugins_[name]].initialized_
                   /\ loads'[plugin_handles_[name]].closed
                          = loads[plugin_handles_[name]].closed + 1
                   /\ DOMAIN plugins_' = DOMAIN plugins_ \ {name}
                   /\ DOMAIN plugin_handles_' = DOMAIN plugin_handles_ \ {name}
                   /\ \A k \in DOMAIN plugins_' : plugins_'[k] = plugins_[k]
                   /\ \A k \in DOMAIN plugin_handles_' :
                         plugin_handles_'[k] = plugin_handles_[k]
                   /\ \A h \in DOMAIN loads :
                         h \notin {plugins_[name], plugin_handles_[name]}
                             => loads'[h] = loads[h]
                   /\ \A i \in DOMAIN PluginManager_getLoadedPlugins(Manager_next) :
                         PluginManager_getLoadedPlugins(Manager_next)[i] # name]_vars

\* a plugin unloaded, cleaned up and released, while another stays registered
C8_Witness ==
    /\ ret.op = "unloadPlugin" /\ ret.result = TRUE
    /\ ret.arg \notin DOMAIN plugins_
    /\ plugins_ # EmptyMap
    /\ \E h \in DOMAIN loads :
          /\ Libraries[loads[h].path].name = ret.arg
          /\ loads[h].registered
          /\ loads[h].cleanupCalls = 1 /\ loads[h].closed = 1

\* C9: a loadPlugin that returns true has put the new instance and the new
\* handle under the name the instance reports, whether or not that name was
\* registered before, has left the entries of all other names alone and has
\* added at most one name.
C9_LastLoadedWins ==
    [][(ret'.op = "loadPlugin" /\ ret'.result = TRUE) =>
          LET name == Libraries[ret'.arg].name
              new == Len(loads')
          IN  /\ Len(loads') = Len(loads) + 1
              /\ loads'[new].path = ret'.arg
              /\ name \in DOMAIN plugins_' /\ plugins_'[name] = new
              /\ name \in DOMAIN plugin_handles_' /\ plugin_handles_'[name] = new
              /\ \A k \in Names \ {name} :
                    /\ k \in DOMAIN plugins_' <=> k \in DOMAIN plugins_
                    /\ k \in DOMAIN plugins_' => plugins_'[k] = plugins_[k]
                    /\ k \in DOMAIN plugin_handles_' <=> k \in DOMAIN plugin_handles_
                    /\ k \in DOMAIN plugin_handles_' =>
                          plugin_handles_'[k] = plugin_handles_[k]
              /\ Cardinality(DOMAIN plugins_') <= Cardinality(DOMAIN plugins_) + 1]_vars

\* a second plugin loaded under a name that an earlier instance holds
C9_Witness ==
    /\ ret.op = "loadPlugin" /\ ret.result = TRUE
    /\ plugins_[Libraries[ret.arg].name] = Len(loads)
    /\ plugin_handles_[Libraries[ret.arg].name] = Len(loads)
    /\ \E h \in 1..(Len(loads) - 1) :
          /\ loads[h].registered
          /\ loads[h].closed = 0
          /\ loads[h].path # ret.arg
          /\ Libraries[loads[h].path].name = Libraries[ret.arg].name

\* the names whose plugin lists the type and makes a component of it
Makers(type) ==
    {k \in DOMAIN plugins_ :
        /\ type \in Libraries[loads[plugins_[k]].path].supported
        /\ type \in Libraries[loads[plugins_[k]].path].produces}

\* C10: createComponent(type) returns the component made by the plugin of
\* the least name among the plugins that list the type and make it, returns
\* absent exactly when there is no such plugin, and leaves the registry as
\* it was.
C10_CreateComponent ==
    [][ret'.op = "createComponent" =>
          /\ plugins_' = plugins_ /\ plugin_handles_' = plugin_handles_ /\ loads' = loads
          /\ (ret'.component = NoComponent) <=> (Makers(ret'.arg) = {})
          /\ \A k \in Makers(ret'.arg) :
                (\A j \in Makers(ret'.arg) : k <= j) =>
                    ret'.component = [type |-> ret'.arg, plugin |-> plugins_[k]]]_vars

\* a Diode made by the plugin of the second name after the plugin of the
\* first name, loaded later, listed the type and made nothing
C10_Witness ==
    /\ ret.op = "createComponent" /\ ret.arg = 1
    /\ DOMAIN plugins_ = {1, 2}
    /\ plugins_[1] > plugins_[2]
    /\ 1 \in Libraries[loads[plugins_[1]].path].supported
    /\ ret.component = [type |-> 1, plugin |-> plugins_[2]]

----------------------------------------------------------------------------
(* BasePlugin: properties *)

\* the calls since the last cleanup() before call j (since construction if
\* there was none)
RunBefore(j) ==
    {i \in 1..(j - 1) : \A k \in i..(j - 1) : calls[k].op = "initialize"}

Count(P(_)) == Cardinality({j \in DOMAIN calls' : P(calls'[j])})
RanCleanup(e) == e.op = "cleanup" /\ e.invoked
RanInitializeWell(e) == e.op = "initialize" /\ e.invoked /\ e.result

\* C12: cleanup() runs doCleanup exactly when the plugin is initialized,
\* and then leaves it not initialized; on a plugin that is not initialized
\* it runs nothing and changes nothing; doCleanup has never run more often
\* than doInitialize has succeeded.
C12_CleanupOnlyWhenInitialized ==
    [][/\ Cleanup =>
             IF basePlugin.initialized_
             THEN calls'[Len(calls')].invoked /\ ~basePlugin'.initialized_
             ELSE ~calls'[Len(calls')].invoked /\ basePlugin' = basePlugin
       /\ Count(RanCleanup) <= Count(RanInitializeWell)]_vars

\* a cleanup() that ran doCleanup, a second one that ran nothing, and a
\* cleanup() after a failed initialize() that ran nothing
C12_Witness ==
    /\ Len(calls) >= 5
    /\ calls[1].op = "initialize" /\ calls[1].result
    /\ calls[2].op = "cleanup" /\ calls[2].invoked
    /\ calls[3].op = "cleanup" /\ ~calls[3].invoked
    /\ calls[4].op = "initialize" /\ ~calls[4].result
    /\ calls[5].op = "cleanup" /\ ~calls[5].invoked
    /\ ~basePlugin.initialized_

\* C13: after a cleanup() that took the plugin out of Initialized no
\* initialize() puts it into Initialized again: doInitialize succeeds at
\* most once.
C13_NoReinitialization ==
    /\ \A i, j \in DOMAIN calls :
          (i < j /\ calls[i].op = "cleanup" /\ calls[i].invoked) =>
              ~(calls[j].op = "initialize" /\ calls[j].result)
    /\ Cardinality({j \in DOMAIN calls :
                        calls[j].op = "initialize" /\ calls[j].invoked /\ calls[j].result}) <= 1

----------------------------------------------------------------------------
(* ownership of the plugin instances *)

\* C14: whenever unloadPlugin or unloadAllPlugins releases the library
\* handle of a plugin instance, no caller holds a pointer to that instance
\* or to a component made of that library's code.
C14_ExclusiveOwnership ==
    [][\A h \in DOMAIN loads :
          loads'[h].closed > loads[h].closed => \A r \in held : r.of # h]_vars

----------------------------------------------------------------------------
(* Circuit: the two maps *)

\* the object the call recorded in call' was made with is one the circuit
\* stores: not null, and with an id that is not empty
StoresComponent == call'.target # Null /\ comp[call'.target].id_ # EmptyId
StoresNode == call'.target # Null /\ node[call'.target].id_ # EmptyId

\* C15: nothing is retrievable from a new circuit; an addComponent / addNode
\* of an object with a non-empty id makes that object the one getComponent /
\* getNode returns for the id, whatever the id returned before, and changes
\* the result for no other id; no other call changes any result.  (Each
\* lookup returns one object or the absent result.)
C15_LastWriteWins ==
    /\ \A id \in Ids : /\ Circuit_getComponent(components_, id) = Null
                       /\ Circuit_getNode(nodes_, id) = Null
    /\ [][/\ IF call'.op = "addComponent" /\ StoresComponent
             THEN \A id \in Ids :
                     Circuit_getComponent(components_', id) =
                         IF id = comp[call'.target].id_ THEN call'.target
                         ELSE Circuit_getComponent(components_, id)
             ELSE \A id \in Ids :
                     Circuit_getComponent(components_', id) =
                         Circuit_getComponent(components_, id)
          /\ IF call'.op = "addNode" /\ StoresNode
             THEN \A id \in Ids :
                     Circuit_getNode(nodes_', id) =
                         IF id = node[call'.target].id_ THEN call'.target
                         ELSE Circuit_getNode(nodes_, id)
             ELSE \A id \in Ids :
                     Circuit_getNode(nodes_', id) = Circuit_getNode(nodes_, id)]_vars

\* the second of two nodes constructed with the same id has just been
\* added and is the one retrievable, and the second component is held under
\* the id both components have
C15_Witness ==
    /\ call.op = "addNode" /\ call.target = 2
    /\ node[1].id_ = node[2].id_
    /\ Circuit_getNode(nodes_, node[1].id_) = 2
    /\ comp[1].id_ = comp[2].id_ /\ comp[1].id_ # EmptyId
    /\ Circuit_getComponent(components_, comp[1].id_) = 2

\* C16: addComponent and addNode of a null reference or of an object with
\* an empty id leave both collections as they were.
C16_ToleratesNullAndEmpty ==
    [][/\ (call'.op = "addComponent" /\ ~StoresComponent) =>
             components_' = components_ /\ nodes_' = nodes_
       /\ (call'.op = "addNode" /\ ~StoresNode) =>
             components_' = components_ /\ nodes_' = nodes_]_vars

\* a node with an empty id has just been added to a circuit that holds a
\* node and a component, the component having lost its id since
C16_Witness ==
    /\ call.op = "addNode" /\ call.target = 2
    /\ node[2].id_ = EmptyId
    /\ DOMAIN nodes_ = {1}
    /\ DOMAIN components_ = {1}
    /\ comp[components_[1]].id_ = EmptyId

\* C17: for every variant (Resistor, Capacitor, Inductor, Diode), a call of
\* simulate(timestep) on a component with fewer than two attached nodes
\* changes no component and no node, whatever the timestep
C17_AdvanceNeedsTwoNodes ==
    [][\A c \in Devices, timestep \in Timesteps :
          (Advance(c, timestep) /\ Len(comp[c].nodes_) < 2)
              => comp' = comp /\ node' = node]_vars

\* an Inductor with one terminal, on a node at 5 V, just advanced by 2
C17_Witness ==
    /\ call.op = "simulate" /\ call.target = 1 /\ call.arg = 2
    /\ comp[1].kind = "Inductor"
    /\ Len(comp[1].nodes_) = 1
    /\ node[comp[1].nodes_[1]].voltage_ = Num(5)

CountOf(seq, x) == Cardinality({i \in DOMAIN seq : seq[i] = x})

\* a node holds as many back-references to a component as the component's
\* terminal list holds occurrences of the node
BackReferencesMatch ==
    \A c \in Comps, n \in Nodes :
        CountOf(node[n].connected_components_, c) = CountOf(comp[c].nodes_, n)

\* the outcome of simulate(timestep) on c when only its first two terminals
\* are attached
AdvancedOnFirstTwo(c, timestep) ==
    Component_simulate([Heap EXCEPT !.comp[c].nodes_ = SubSeq(@, 1, 2)], c, Num(timestep))

\* C18: c.connect(n) appends n to c's terminal list and c to n's list of
\* back-references, a third and later terminal and a node already attached
\* included; so the back-references to c in n are as many as the
\* occurrences of n among c's terminals; and an advance of a component
\* with three or more terminals has the outcome it has with the first two
\* alone
C18_ConnectAppendsBothWays ==
    /\ BackReferencesMatch
    /\ [][/\ BackReferencesMatch'
          /\ \A c \in Devices, n \in Nodes :
                Attach(c, n) =>
                    /\ comp'[c].nodes_ = Append(comp[c].nodes_, n)
                    /\ node'[n].connected_components_ =
                           Append(node[n].connected_components_, c)
          /\ \A c \in Devices, timestep \in Timesteps :
                (Advance(c, timestep) /\ Len(comp[c].nodes_) > 2) =>
                    LET first == AdvancedOnFirstTwo(c, timestep)
                    IN  /\ comp'[c] = [first.comp[c] EXCEPT !.nodes_ = comp[c].nodes_]
                        /\ node' = first.node]_vars

\* a Resistor connected to node 2, then twice to node 1, which is at 5 V,
\* and advanced: node 1 holds two back-references, and the current is that
\* of 0 V - 5 V across the first two terminals
C18_Witness ==
    /\ call.op = "simulate" /\ call.target = 1
    /\ comp[1].kind = "Resistor"
    /\ comp[1].nodes_ = <<2, 1, 1>>
    /\ node[1].connected_components_ = <<1, 1>>
    /\ node[1].voltage_ = Num(5)
    /\ comp[1].current_ = <<-1, 200>>

\* C19: after simulate(timestep) on a Resistor with at least two attached
\* nodes, getCurrentValue() is (voltage of the first node - voltage of the
\* second) / resistance, whatever the timestep and whatever the current
\* was before; with 1000 ohm between 5 V and 0 V that is 0.005 A
C19_ResistorOhmsLaw ==
    [][\A c \in Devices, timestep \in Timesteps :
          (/\ Advance(c, timestep)
           /\ comp[c].kind = "Resistor"
           /\ Len(comp[c].nodes_) >= 2)
              => /\ comp'[c].current_ =
                       DDiv[DSub[node[comp[c].nodes_[1]].voltage_,
                                 node[comp[c].nodes_[2]].voltage_],
                            comp[c].resistance_]
                 /\ (/\ comp[c].resistance_ = Num(1000)
                     /\ node[comp[c].nodes_[1]].voltage_ = Num(5)
                     /\ node[comp[c].nodes_[2]].voltage_ = Zero)
                        => comp'[c].current_ = <<1, 200>>]_vars

\* the 1000 ohm Resistor of the test between node 1 at 5 V and node 2 at
\* 0 V, advanced twice by a timestep of -1: 0.005 A
C19_Witness ==
    /\ call.op = "simulate" /\ call.target = 1 /\ call.arg = -1 /\ call.repeat = 2
    /\ comp[1].kind = "Resistor"
    /\ comp[1].nodes_ = <<1, 2>>
    /\ node[1].voltage_ = Num(5) /\ node[2].voltage_ = Zero
    /\ comp[1].current_ = <<1, 200>>

\* the voltage difference D across the first two terminals of c
TerminalDifference(c) ==
    DSub[node[comp[c].nodes_[1]].voltage_, node[comp[c].nodes_[2]].voltage_]

\* the step is an advance of Capacitor c, with two terminals or more, by a
\* positive timestep
CapacitorAdvance(c, timestep) ==
    /\ Advance(c, timestep)
    /\ timestep > 0
    /\ comp[c].kind = "Capacitor"
    /\ Len(comp[c].nodes_) >= 2

\* the call before this one was the same advance of c: the timestep is
\* fixed and no node voltage has been set in between
Repeated(c, timestep) ==
    call.op = "simulate" /\ call.target = c /\ call.arg = timestep

\* C20 as stated: while a Capacitor is advanced again and again by a fixed
\* positive timestep with the terminal voltage difference held at D # 0,
\* |stored voltage - D| is strictly smaller after each step than before it
C20_StoredVoltageStrictlyApproaches ==
    [][\A c \in Devices, timestep \in Timesteps :
          (/\ CapacitorAdvance(c, timestep)
           /\ TerminalDifference(c) # Zero
           /\ \/ comp[c].voltage_ = Zero /\ comp[c].charge_ = Zero
              \/ Repeated(c, timestep))
              => LET abs(a) == <<Abs(a[1]), a[2]>>
                 IN  DLess[abs(DSub[comp'[c].voltage_, TerminalDifference(c)]),
                           abs(DSub[comp[c].voltage_, TerminalDifference(c)])]]_vars

\* C20: an advance of a Capacitor by a positive timestep stores the
\* terminal voltage difference D itself; so, with D held, the stored
\* voltage is D after the first advance, and every repeated advance finds
\* it at D and leaves it at D: |stored voltage - D| is 0 after every step
\* and decreases at the first step only
C20_StoredVoltageJumpsToDifference ==
    [][\A c \in Devices, timestep \in Timesteps :
          CapacitorAdvance(c, timestep)
              => /\ comp'[c].voltage_ = TerminalDifference(c)
                 /\ Repeated(c, timestep)
                        => /\ comp[c].voltage_ = TerminalDifference(c)
                           /\ comp'[c].voltage_ = comp[c].voltage_]_vars

\* the 1e-6 F Capacitor of the test between node 1 at 5 V and node 2 at
\* 0 V, advanced twice by a timestep of 1: it stores 5 V and 5e-6 C
C20_Witness ==
    /\ call.op = "simulate" /\ call.target = 1 /\ call.arg = 1 /\ call.repeat = 2
    /\ comp[1].kind = "Capacitor"
    /\ comp[1].nodes_ = <<1, 2>>
    /\ node[1].voltage_ = Num(5) /\ node[2].voltage_ = Zero
    /\ comp[1].voltage_ = Num(5)
    /\ comp[1].charge_ = <<1, 200000>>

\* Q = C * Vc for Capacitor c
ChargeMatchesVoltage(c) ==
    comp[c].charge_ = DMul[comp[c].capacitance_, comp[c].voltage_]

\* C21: a new Capacitor has Q = C * Vc, and an advance with a timestep
\* other than 0 and two attached nodes or more, made when every advance
\* before it was such a one (so that Q = C * Vc still holds), stores the
\* terminal voltage difference it read as Vc, adds C * (Vc_new - Vc_old)
\* to Q and so keeps Q = C * Vc; getCurrentValue() then returns Vc
C21_CapacitorChargeFollowsVoltage ==
    /\ \A c \in Devices : comp[c].kind = "Capacitor" => ChargeMatchesVoltage(c)
    /\ [][\A c \in Devices, timestep \in Timesteps :
              (/\ Advance(c, timestep)
               /\ timestep # 0
               /\ comp[c].kind = "Capacitor"
               /\ Len(comp[c].nodes_) >= 2
               /\ ChargeMatchesVoltage(c))
                  => /\ comp'[c].voltage_ = TerminalDifference(c)
                     /\ Component_getCurrentValue(Heap', c) = TerminalDifference(c)
                     /\ comp'[c].charge_ =
                            DAdd[comp[c].charge_,
                                 DMul[comp[c].capacitance_,
                                      DSub[comp'[c].voltage_, comp[c].voltage_]]]
                     /\ ChargeMatchesVoltage(c)']_vars

\* the 1e-6 F Capacitor advanced at 5 V, then, with node 1 set to 0.7 V,
\* advanced by a timestep of -1: Vc = 0.7 V and Q = 0.7e-6 C
C21_Witness ==
    /\ call.op = "simulate" /\ call.target = 1 /\ call.arg = -1
    /\ comp[1].kind = "Capacitor"
    /\ comp[1].nodes_ = <<1, 2>>
    /\ node[1].voltage_ = <<7, 10>> /\ node[2].voltage_ = Zero
    /\ comp[1].voltage_ = <<7, 10>>
    /\ comp[1].charge_ = <<7, 10000000>>

\* every order in which the entries of map m can be visited
Orders(m) ==
    {f \in [1..Cardinality(DOMAIN m) -> DOMAIN m] :
        \A i, j \in DOMAIN f : i # j => f[i] # f[j]}

\* C22: the components and the nodes a step of Circuit::simulate leaves
\* are those that advancing the entries of components_ in any other order
\* leaves
C22_StepOrderIrrelevant ==
    [][SimBody =>
          \A order \in Orders(components_) :
              LET h == SimulateAll(Heap, components_, order, Num(sim.timestep))
              IN  comp' = h.comp /\ node' = h.node]_vars

\* a step has just advanced an Inductor and a Diode held under two keys,
\* by a timestep that is not 0, and both have left their initial state
C22_Witness ==
    /\ sim.pc = "test" /\ sim.steps = 1 /\ sim.timestep # 0
    /\ DOMAIN components_ = {1, 2}
    /\ components_[1] # components_[2]
    /\ \E c \in Comps : comp[c].kind = "Inductor" /\ comp[c].current_ # Zero
    /\ \E c \in Comps : comp[c].kind = "Diode" /\ comp[c].current_.law = "forward"

\* C23: when unloadAllPlugins() returns, plugins_ and plugin_handles_ are
\* empty, getLoadedPlugins() lists nothing, and cleanup() has been called
\* once more on each instance that was registered when the call began
C23_UnloadAllEmptiesRegistry ==
    [][UnloadAllPlugins =>
          /\ plugins_' = EmptyMap
          /\ plugin_handles_' = EmptyMap
          /\ PluginManager_getLoadedPlugins(Manager') = << >>
          /\ \A name \in DOMAIN plugins_ :
                loads'[plugins_[name]].cleanupCalls =
                    loads[plugins_[name]].cleanupCalls + 1]_vars

\* unloadAllPlugins() has returned after two plugins were registered under
\* two names: the registry is empty and both have had their cleanup()
C23_Witness ==
    /\ ret.op = "unloadAllPlugins"
    /\ plugins_ = EmptyMap
    /\ \E p, q \in DOMAIN loads :
          /\ Libraries[loads[p].path].name # Libraries[loads[q].path].name
          /\ loads[p].registered /\ loads[q].registered
          /\ loads[p].cleanupCalls = 1 /\ loads[q].cleanupCalls = 1
          /\ loads[p].closed = 1 /\ loads[q].closed = 1

\* C24: discoverPlugins on a path that does not exist, or that is not a
\* directory, returns the empty list, lets no exception out and leaves
\* plugins_, plugin_handles_ and the loaded libraries as they were
C24_DiscoverMissingDirectory ==
    [][\A fs \in {f \in FileSystems : ~(f.exists /\ f.is_directory)} :
          DiscoverPlugins(fs)
              => /\ ret'.paths = << >>
                 /\ ~ret'.raised
                 /\ Manager' = Manager]_vars

\* discoverPlugins has returned for a path that does not exist, with the
\* example plugin registered
C24_Witness ==
    /\ ret.op = "discoverPlugins"
    /\ ~ret.fs.exists
    /\ ret.paths = << >>
    /\ DOMAIN plugins_ # {}

\* C25: when a std::filesystem call throws while discoverPlugins lists the
\* directory, also after matching entries have been visited, no exception
\* leaves the call and the list it returns is empty
C25_FailureYieldsEmptyList ==
    [][\A fs \in FileSystems :
          (DiscoverPlugins(fs) /\ fs.throws)
              => ~ret'.raised /\ ret'.paths = << >>]_vars

\* whether str ends with suffix
EndsWith(str, suffix) ==
    /\ Len(str) >= Len(suffix)
    /\ SubSeq(str, Len(str) - Len(suffix) + 1, Len(str)) = suffix

\* C26: for a directory that exists and is listed without failure,
\* discoverPlugins returns the paths of exactly the entries that are
\* regular files with a name ending in the library suffix
C26_ListsExactlyLibraryFiles ==
    [][\A fs \in FileSystems :
          (DiscoverPlugins(fs) /\ fs.exists /\ fs.is_directory /\ ~fs.throws)
              => {ret'.paths[i] : i \in DOMAIN ret'.paths} =
                     {EntryPath(PluginDirectory, fs.listing[i].filename) :
                         i \in {j \in DOMAIN fs.listing :
                                   /\ fs.listing[j].is_regular_file
                                   /\ EndsWith(fs.listing[j].filename,
                                               LIBRARY_EXTENSION)}}]_vars

\* C27: with two threads calling the manager, at most one of them is
\* inside loadPlugin, unloadPlugin, unloadAllPlugins or getLoadedPlugins at
\* any time; so none reads or writes the registry between another's update
\* of plugins_ and its update of plugin_handles_, or while another iterates
C27_MutualExclusion ==
    Cardinality({t \in Threads : running[t].pc # "idle"}) <= 1

\* C28: every plugin in plugins_ is initialized (initialize() returned
\* true and cleanup() has not run on it since), whatever the callers have
\* done with the references getPlugin gave them; and a component that
\* createComponent returns was made by a plugin that is initialized
C28_RegisteredPluginsInitialized ==
    /\ \A name \in DOMAIN plugins_ : loads[plugins_[name]].initialized_
    /\ (ret.op = "createComponent" /\ ret.component # NoComponent)
           => loads[ret.component.plugin].initialized_

\* C29: after every loadPlugin, unloadPlugin and unloadAllPlugins of a
\* single caller, the names in plugins_ are the names in plugin_handles_
C29_SameNamesInBothMaps ==
    DOMAIN plugins_ = DOMAIN plugin_handles_

\* unloadPlugin has removed one of two registered names, after a load that
\* replaced an entry: the name left is in both maps
C29_Witness ==
    /\ ret.op = "unloadPlugin" /\ ret.result
    /\ Cardinality(DOMAIN plugins_) = 1
    /\ DOMAIN plugin_handles_ = DOMAIN plugins_
    /\ Cardinality({h \in DOMAIN loads : loads[h].registered}) = 3

\* C30: after any addComponent and setId calls, getComponent(id) is absent
\* or a component whose getId() is id, for every id, and no component is
\* held under two keys
C30_KeysAgreeWithIds ==
    /\ \A id \in Ids :
          Circuit_getComponent(components_, id) # Null
              => comp[Circuit_getComponent(components_, id)].id_ = id
    /\ \A j, k \in DOMAIN components_ : components_[j] = components_[k] => j = k

============================================================================
